---- MODULE Spec2Model ----
(***************************************************************************)
(* Model of src/summarizer.py: the NewsAPI wrapper get_news and the        *)
(* AssistantManager class (process-wide id cache, thread/run lifecycle and *)
(* the polling loop wait_for_completion with its tool dispatch).           *)
(*                                                                         *)
(* The program is single threaded: one method call runs at a time, and     *)
(* wait_for_completion blocks its caller until it returns or raises.  The  *)
(* OpenAI client and the NewsAPI endpoint are the environment: the remote  *)
(* side hands out fresh ids, keeps each thread's message list newest       *)
(* first, and advances a run's status between two retrieves.               *)
(***************************************************************************)
EXTENDS Integers, Sequences, FiniteSets, TLC

\* ---------------------------------------------------------------- bounds
NumInst == 2
MaxRuns == 1
MaxPolls == 2
MaxMsgs == 1
MaxCalls == 2
MaxArticles == 2

\* ------------------------------------------------------------- constants
None == 0
NoSummary == "None"
HTTP_OK == 200

Inst == 1..NumInst

\* ======================================================================
\* get_news
\* ======================================================================
Fields == <<"title", "author", "url", "source", "content", "description">>

FieldSet == {Fields[k] : k \in 1..Len(Fields)}

\* An article object of the response body: the keys it carries and the
\* value under each key (0 is JSON null).  "source" stands for the path
\* article["source"]["name"].
FullArticle(tag) ==
  [keys |-> FieldSet,
   val |-> [f \in FieldSet |-> 10 * tag + (CHOOSE k \in 1..Len(Fields) : Fields[k] = f)]]

NullAuthor(a) == [a EXCEPT !.val["author"] = 0]

Without(a, f) == [a EXCEPT !.keys = @ \ {f}]

Articles ==
  {FullArticle(1), FullArticle(2), NullAuthor(FullArticle(1)),
   Without(FullArticle(2), "author"), Without(FullArticle(1), "source")}

SeqsUpTo(S, n) == UNION {[1..k -> S] : k \in 0..n}

\* What requests.get can produce: it raises (a transport failure), or it
\* returns a response with a status code and a body.  The body either is
\* not JSON, or is a JSON object without "articles", or carries a list.
StatusCodes == {HTTP_OK, 301, 401, 404, 429, 500}

TransportErrors == {"ConnectionError", "Timeout"}

NoBody == [shape |-> "notjson", articles |-> <<>>]

Bodies ==
  {NoBody, [shape |-> "nokey", articles |-> <<>>]}
  \cup {[shape |-> "ok", articles |-> s] : s \in SeqsUpTo(Articles, MaxArticles)}

Outcomes ==
  {[exc |-> e, status_code |-> 0, body |-> NoBody] : e \in TransportErrors}
  \cup {[exc |-> "none", status_code |-> c, body |-> b] : c \in StatusCodes, b \in Bodies}

\* items = {"title": article["title"], ...}: a KeyError when a key is absent
ItemRaises(article) == \E f \in FieldSet : f \notin article.keys

Items(article) == [f \in FieldSet |-> article.val[f]]

\* The try block, lines 41-59: the exception raised inside it, if any ...
TryExc(o) ==
  IF o.exc # "none" THEN o.exc
  ELSE IF o.status_code # HTTP_OK THEN "none"
  ELSE IF o.body.shape = "notjson" THEN "JSONDecodeError"
  ELSE IF o.body.shape = "nokey" THEN "KeyError"
  ELSE IF \E k \in 1..Len(o.body.articles) : ItemRaises(o.body.articles[k])
       THEN "KeyError"
  ELSE "none"

\* ... and the value it returns otherwise.
TryValue(o) ==
  IF o.status_code = HTTP_OK
  THEN [k \in 1..Len(o.body.articles) |-> Items(o.body.articles[k])]
  ELSE <<>>

\* `except Exception`: every exception class modelled here derives from it
CaughtOnlyParseErrors(e) == e \in {"JSONDecodeError", "KeyError"}

Caught(e) == e \in TransportErrors \cup {"JSONDecodeError", "KeyError"}

get_news(o) ==
  IF TryExc(o) = "none" THEN [raised |-> "none", value |-> TryValue(o)]
  ELSE IF Caught(TryExc(o)) THEN [raised |-> "none", value |-> <<>>]
  ELSE [raised |-> TryExc(o), value |-> <<>>]

\* str(item): the dict's values in insertion order
StrOf(item) == [k \in 1..Len(Fields) |-> item[Fields[k]]]

RECURSIVE Join(_)
Join(output) ==
  IF output = <<>> THEN <<>> ELSE StrOf(Head(output)) \o Join(Tail(output))


\* ======================================================================
\* State
\* ======================================================================
VARIABLES
  assistant_id,   \* AssistantManager.assistant_id (class attribute)
  thread_id,      \* AssistantManager.thread_id (class attribute)
  constructed,    \* the instances __init__ has run for
  assistant,      \* self.assistant of each instance (an id, or None)
  thread,         \* self.thread
  run,            \* self.run
  summary,        \* self.summary
  nAssistants,    \* remote: assistants created so far (the last id given)
  nThreads,       \* remote: threads created so far
  nRuns,          \* remote: runs created so far
  messages,       \* remote: message list of each thread, newest first
  runs,           \* remote: thread and status of each run
  pc,             \* position of the thread of control
  cur,            \* the instance whose wait_for_completion is running
  run_status,     \* wait_for_completion: the run object last retrieved
  idx,            \* call_required_functions: position in tool_calls
  tool_outputs,   \* call_required_functions: the list built so far
  polls,          \* retrieves made so far
  sleeps,         \* history: sleeps made so far
  asstCreates,    \* history: remote assistant creations made by each instance
  threadCreates,  \* history: remote thread creations made by each instance
  stepNews,       \* history: topics get_news was called with since the last retrieve
  stepSubmits,    \* history: batches submitted since the last retrieve
  last,           \* history: the method call that finished last, and how
  news_in,        \* get_news: what requests.get produces
  news_pc,        \* get_news: "start" before the call, "done" after it
  news_out        \* get_news: what the call gave its caller

cacheVars == <<assistant_id, thread_id>>
selfVars == <<constructed, assistant, thread, run, summary>>
remoteVars == <<nAssistants, nThreads, nRuns, messages, runs>>
loopVars == <<pc, cur, run_status, idx, tool_outputs, polls, sleeps>>
histVars == <<asstCreates, threadCreates, stepNews, stepSubmits, last>>
newsVars == <<news_in, news_pc, news_out>>
vars == <<cacheVars, selfVars, remoteVars, loopVars, histVars, newsVars>>

\* ------------------------------------------------------------ the remote
Working == {"queued", "in_progress"}
Failure == {"failed", "cancelled", "expired"}
Terminal == {"completed"} \cup Failure
Statuses == Working \cup {"requires_action"} \cup Terminal

UserTexts == {"news on Crypto"}
AssistantTexts == {"BTC rallied", "ETH fell"}

\* arguments of a tool call: a JSON string that json.loads accepts or not,
\* and that has a "topic" key or not
GoodArgs(t) == [valid |-> TRUE, has_topic |-> TRUE, topic |-> t]
BadJson == [valid |-> FALSE, has_topic |-> FALSE, topic |-> ""]
NoTopic == [valid |-> TRUE, has_topic |-> FALSE, topic |-> ""]

CallBodies ==
  {[name |-> "get_news", arguments |-> GoodArgs("Crypto")],
   [name |-> "get_news", arguments |-> GoodArgs("AI")],
   [name |-> "get_news", arguments |-> NoTopic],
   [name |-> "get_weather", arguments |-> GoodArgs("Crypto")]}

\* required_action.submit_tool_outputs.tool_calls: the k-th call has id k
ToolCallLists ==
  UNION {{[k \in 1..n |-> [id |-> k, function |-> b[k]]] : b \in [1..n -> CallBodies]} :
           n \in 1..MaxCalls}

NoRunStatus == [status |-> "none", tool_calls |-> <<>>]

\* what the news endpoint answers during a tool dispatch
DispatchOutcomes ==
  {[exc |-> "none", status_code |-> HTTP_OK,
    body |-> [shape |-> "ok", articles |-> <<FullArticle(1)>>]],
   [exc |-> "ConnectionError", status_code |-> 0, body |-> NoBody]}

\* A run that reached a terminal status stays there; a run blocked on tool
\* outputs stays blocked until it gets some or gives up; otherwise the run
\* is anywhere by the time of the next retrieve.
NextStatuses(s) ==
  IF s \in Terminal THEN {s}
  ELSE IF s = "requires_action" THEN {"requires_action", "cancelled", "expired"}
  ELSE Statuses

\* the record of a finished call; again: the call before it was the same
\* method on the same instance
Finished(op, i, result, again) == [op |-> op, inst |-> i, result |-> result, again |-> again]

\* ======================================================================
\* Init
\* ======================================================================
InitCommon ==
  /\ assistant_id = None
  /\ thread_id = None
  /\ constructed = {}
  /\ assistant = [i \in Inst |-> None]
  /\ thread = [i \in Inst |-> None]
  /\ run = [i \in Inst |-> None]
  /\ summary = [i \in Inst |-> NoSummary]
  /\ nAssistants = 0
  /\ nThreads = 0
  /\ nRuns = 0
  /\ messages = [t \in 1..NumInst |-> <<>>]
  /\ runs = [r \in 1..MaxRuns |-> [thread |-> None, status |-> "none"]]
  /\ pc = "idle"
  /\ cur = None
  /\ run_status = NoRunStatus
  /\ idx = 0
  /\ tool_outputs = <<>>
  /\ polls = 0
  /\ sleeps = 0
  /\ asstCreates = [i \in Inst |-> 0]
  /\ threadCreates = [i \in Inst |-> 0]
  /\ stepNews = <<>>
  /\ stepSubmits = <<>>
  /\ last = Finished("none", None, "returned", FALSE)
  /\ news_pc = "start"
  /\ news_out = [raised |-> "none", value |-> <<>>]

Init ==
  /\ InitCommon
  /\ news_in = [exc |-> "none", status_code |-> HTTP_OK,
                body |-> [shape |-> "ok", articles |-> <<>>]]

\* ======================================================================
\* AssistantManager: construction and the ensure/post/start operations
\* ======================================================================
Done(op, i, result) == Finished(op, i, result, last.op = op /\ last.inst = i)

Idle(i) == pc = "idle" /\ i \in constructed

\* __init__, lines 92-108
Construct(i) ==
  /\ pc = "idle"
  /\ i \notin constructed
  /\ constructed' = constructed \cup {i}
  /\ assistant' = [assistant EXCEPT ![i] = IF assistant_id # None THEN assistant_id ELSE None]
  /\ thread' = [thread EXCEPT ![i] = IF thread_id # None THEN thread_id ELSE None]
  /\ run' = [run EXCEPT ![i] = None]
  /\ summary' = [summary EXCEPT ![i] = NoSummary]
  /\ last' = Done("__init__", i, "returned")
  /\ UNCHANGED <<cacheVars, remoteVars, loopVars, newsVars>>
  /\ UNCHANGED <<asstCreates, threadCreates, stepNews, stepSubmits>>

\* AssistantManager.assistant_id = assistant_obj.id, line 123, and the same
\* for the thread, line 133: the class attribute takes the new id
CachedIdKeepFirst(cached, id) == IF cached = None THEN id ELSE cached

CachedId(cached, id) == id

\* the guard of create_assistant, line 119
NeedsAssistantAlways(i) == TRUE

NeedsAssistant(i) == assistant[i] = None

\* create_assistant, lines 110-125
create_assistant(i) ==
  /\ Idle(i)
  /\ IF NeedsAssistant(i)
     THEN /\ nAssistants' = nAssistants + 1
          /\ assistant_id' = CachedId(assistant_id, nAssistants + 1)
          /\ assistant' = [assistant EXCEPT ![i] = nAssistants + 1]
          /\ asstCreates' = [asstCreates EXCEPT ![i] = @ + 1]
     ELSE UNCHANGED <<nAssistants, assistant_id, assistant, asstCreates>>
  /\ last' = Done("create_assistant", i, "returned")
  /\ UNCHANGED <<thread_id, constructed, thread, run, summary>>
  /\ UNCHANGED <<nThreads, nRuns, messages, runs, loopVars, newsVars>>
  /\ UNCHANGED <<threadCreates, stepNews, stepSubmits>>

NeedsThread(i) == thread[i] = None

\* create_thread, lines 127-135
create_thread(i) ==
  /\ Idle(i)
  /\ IF NeedsThread(i)
     THEN /\ nThreads' = nThreads + 1
          /\ thread_id' = CachedId(thread_id, nThreads + 1)
          /\ thread' = [thread EXCEPT ![i] = nThreads + 1]
          /\ threadCreates' = [threadCreates EXCEPT ![i] = @ + 1]
     ELSE UNCHANGED <<nThreads, thread_id, thread, threadCreates>>
  /\ last' = Done("create_thread", i, "returned")
  /\ UNCHANGED <<assistant_id, constructed, assistant, run, summary>>
  /\ UNCHANGED <<nAssistants, nRuns, messages, runs, loopVars, newsVars>>
  /\ UNCHANGED <<asstCreates, stepNews, stepSubmits>>

\* add_message_to_thread, lines 137-148
add_message_to_thread(i, role, content) ==
  /\ Idle(i)
  /\ IF thread[i] # None
     THEN /\ Len(messages[thread[i]]) < MaxMsgs
          /\ messages' = [messages EXCEPT
               ![thread[i]] = <<[role |-> role, text |-> content]>> \o @]
     ELSE UNCHANGED messages
  /\ last' = Done("add_message_to_thread", i, "returned")
  /\ UNCHANGED <<cacheVars, selfVars, nAssistants, nThreads, nRuns, runs>>
  /\ UNCHANGED <<loopVars, newsVars, asstCreates, threadCreates, stepNews, stepSubmits>>

\* the guard of run_assistant, line 157
CanRunWithAssistant(i) == assistant[i] # None

CanRun(i) == thread[i] # None /\ assistant[i] # None

\* run_assistant, lines 150-162
run_assistant(i) ==
  /\ Idle(i)
  /\ IF CanRun(i)
     THEN /\ nRuns < MaxRuns
          /\ nRuns' = nRuns + 1
          /\ run' = [run EXCEPT ![i] = nRuns + 1]
          /\ runs' = [runs EXCEPT ![nRuns + 1] = [thread |-> thread[i], status |-> "queued"]]
     ELSE UNCHANGED <<nRuns, run, runs>>
  /\ last' = Done("run_assistant", i, "returned")
  /\ UNCHANGED <<cacheVars, constructed, assistant, thread, summary>>
  /\ UNCHANGED <<nAssistants, nThreads, messages>>
  /\ UNCHANGED <<loopVars, newsVars, asstCreates, threadCreates, stepNews, stepSubmits>>

\* ======================================================================
\* process_messages and get_summary
\* ======================================================================
\* last_message = messages.data[0], line 172
OldestMessage(data) == data[Len(data)]

LastMessage(data) == data[1]

\* messages.data[0] on an empty list raises IndexError
ProcessRaises(i) == thread[i] # None /\ messages[thread[i]] = <<>>

ProcessSummaryKept(i) == summary[i]

\* self.summary after process_messages, lines 168-177; the join of the
\* one-element list is that element
ProcessSummary(i) ==
  IF thread[i] # None /\ messages[thread[i]] # <<>>
  THEN LastMessage(messages[thread[i]]).text
  ELSE summary[i]

\* process_messages called by the user of the class, lines 164-187
process_messages(i) ==
  /\ Idle(i)
  /\ summary' = [summary EXCEPT ![i] = ProcessSummary(i)]
  /\ last' = Done("process_messages", i, IF ProcessRaises(i) THEN "IndexError" ELSE "returned")
  /\ UNCHANGED <<cacheVars, constructed, assistant, thread, run, remoteVars>>
  /\ UNCHANGED <<loopVars, newsVars, asstCreates, threadCreates, stepNews, stepSubmits>>

\* get_summary, lines 244-251
get_summary(i) == summary[i]

\* ======================================================================
\* wait_for_completion and call_required_functions
\* ======================================================================
\* the guard of wait_for_completion, line 193
CanWait(i) == thread[i] # None /\ run[i] # None

\* wait_for_completion without a thread or without a run: it returns at once
WaitSkip(i) ==
  /\ Idle(i)
  /\ ~CanWait(i)
  /\ last' = Done("wait_for_completion", i, "returned")
  /\ UNCHANGED <<cacheVars, selfVars, remoteVars, loopVars, newsVars>>
  /\ UNCHANGED <<asstCreates, threadCreates, stepNews, stepSubmits>>

\* wait_for_completion with both: it enters the loop of line 194
WaitEnter(i) ==
  /\ Idle(i)
  /\ CanWait(i)
  /\ pc' = "sleep"
  /\ cur' = i
  /\ UNCHANGED <<cacheVars, selfVars, remoteVars, run_status, idx, tool_outputs, polls, sleeps>>
  /\ UNCHANGED <<histVars, newsVars>>

\* time.sleep(5), line 195
Sleep ==
  /\ pc = "sleep"
  /\ polls < MaxPolls
  /\ pc' = "retrieve"
  /\ sleeps' = sleeps + 1
  /\ UNCHANGED <<cacheVars, selfVars, remoteVars, cur, run_status, idx, tool_outputs, polls>>
  /\ UNCHANGED <<histVars, newsVars>>

\* runs.retrieve, lines 196-198: the run as the remote has it by now.  A
\* run that completes has had the assistant's answer put in its thread.
Retrieve ==
  /\ pc = "retrieve"
  /\ LET r == run[cur]
         t == runs[r].thread
     IN \E s \in NextStatuses(runs[r].status) :
        \E calls \in IF s = "requires_action" THEN ToolCallLists ELSE {<<>>} :
        \E answer \in AssistantTexts :
          /\ runs' = [runs EXCEPT ![r].status = s]
          /\ messages' =
               IF s = "completed" /\ runs[r].status # "completed"
               THEN [messages EXCEPT ![t] = <<[role |-> "assistant", text |-> answer]>> \o @]
               ELSE messages
          /\ run_status' = [status |-> s, tool_calls |-> calls]
  /\ polls' = polls + 1
  /\ UNCHANGED sleeps
  /\ stepNews' = <<>>
  /\ stepSubmits' = <<>>
  /\ pc' = "branch"
  /\ UNCHANGED <<cacheVars, selfVars, nAssistants, nThreads, nRuns, cur, idx, tool_outputs>>
  /\ UNCHANGED <<asstCreates, threadCreates, last, newsVars>>

\* what the loop does with a status that is neither completed nor
\* requires_action, lines 202-209: nothing, it goes round again
AfterOtherStatusNoSleep(s) == "retrieve"

AfterOtherStatus(s) == "sleep"

\* wait_for_completion is left, by the break or by an exception: its
\* locals are gone and its caller has the result
Leave(result) ==
  /\ pc' = "idle"
  /\ cur' = None
  /\ last' = Done("wait_for_completion", cur, result)
  /\ run_status' = NoRunStatus
  /\ polls' = 0
  /\ sleeps' = 0
  /\ idx' = 0
  /\ tool_outputs' = <<>>
  /\ stepNews' = <<>>
  /\ stepSubmits' = <<>>

\* the test of the if, line 202
CompletesUnlessRequiresAction(s) == s # "requires_action"

Completes(s) == s = "completed"

\* the test of the elif, line 205
DispatchesUnlessCompleted(s) == s # "completed"

Dispatches(s) == s = "requires_action"

\* the branch on run_status.status, lines 202-209
Branch ==
  /\ pc = "branch"
  /\ IF Completes(run_status.status)
     THEN /\ summary' = [summary EXCEPT ![cur] = ProcessSummary(cur)]
          /\ Leave(IF ProcessRaises(cur) THEN "IndexError" ELSE "returned")
     ELSE IF Dispatches(run_status.status)
     THEN /\ IF run[cur] = None
             THEN pc' = "sleep" /\ UNCHANGED <<idx, tool_outputs>>
             ELSE pc' = "call" /\ idx' = 1 /\ tool_outputs' = <<>>
          /\ UNCHANGED <<summary, cur, last, run_status, polls, sleeps, stepNews, stepSubmits>>
     ELSE /\ pc' = AfterOtherStatus(run_status.status)
          /\ UNCHANGED <<summary, cur, last, idx, tool_outputs>>
          /\ UNCHANGED <<run_status, polls, sleeps, stepNews, stepSubmits>>
  /\ UNCHANGED <<cacheVars, constructed, assistant, thread, run, remoteVars>>
  /\ UNCHANGED <<asstCreates, threadCreates, newsVars>>

TurnExcNoNameCheck(action) ==
  IF ~action.function.arguments.valid THEN "JSONDecodeError"
  ELSE IF ~action.function.arguments.has_topic THEN "KeyError"
  ELSE "none"

\* the exception one turn of the for loop raises before it appends, lines
\* 222-235: json.loads, then arguments["topic"] or the unknown name
TurnExc(action) ==
  IF ~action.function.arguments.valid THEN "JSONDecodeError"
  ELSE IF action.function.name # "get_news" THEN "ValueError"
  ELSE IF ~action.function.arguments.has_topic THEN "KeyError"
  ELSE "none"

\* topic=arguments["topic"], line 226
TopicCrypto(arguments) == "Crypto"

TopicOf(arguments) == arguments.topic

\* submit_tool_outputs as the remote sees it: a run blocked on tool outputs
\* goes back to work, any other run is left as it is
Submitted(r) ==
  IF runs[r].status = "requires_action" THEN [runs EXCEPT ![r].status = "queued"] ELSE runs

\* where the submit of lines 237-242 happens: in every turn of the for loop
SubmitsInTurn(k, n) == TRUE

\* one turn of the for loop of call_required_functions, lines 221-242, and
\* the return to the polling loop when the list is exhausted
CallTurn ==
  /\ pc = "call"
  /\ LET calls == run_status.tool_calls IN
     IF idx > Len(calls)
     THEN /\ pc' = "sleep"
          /\ idx' = 0
          /\ tool_outputs' = <<>>
          /\ UNCHANGED <<cur, runs, stepNews, stepSubmits, last, run_status, polls, sleeps>>
     ELSE LET action == calls[idx] IN
          IF TurnExc(action) # "none"
          THEN /\ Leave(TurnExc(action))
               /\ UNCHANGED runs
          ELSE \E o \in DispatchOutcomes :
               LET output == get_news(o).value
                   final_str == Join(output)
                   outs == Append(tool_outputs, [tool_call_id |-> action.id, output |-> final_str])
               IN /\ stepNews' = Append(stepNews, TopicOf(action.function.arguments))
                  /\ tool_outputs' = outs
                  /\ IF SubmitsInTurn(idx, Len(calls))
                     THEN /\ stepSubmits' = Append(stepSubmits, outs)
                          /\ runs' = Submitted(run[cur])
                     ELSE UNCHANGED <<stepSubmits, runs>>
                  /\ idx' = idx + 1
                  /\ UNCHANGED <<pc, cur, last, run_status, polls, sleeps>>
  /\ UNCHANGED <<cacheVars, selfVars, nAssistants, nThreads, nRuns, messages>>
  /\ UNCHANGED <<asstCreates, threadCreates, newsVars>>

\* ======================================================================
\* Specifications
\* ======================================================================
\* the calls that read or write the id cache
CacheCalls(i) ==
  \/ Construct(i)
  \/ create_assistant(i)
  \/ create_thread(i)

\* the calls a user of the class makes on instance i between two polls
Calls(i) ==
  \/ CacheCalls(i)
  \/ \E c \in UserTexts : add_message_to_thread(i, "user", c)
  \/ run_assistant(i)
  \/ process_messages(i)
  \/ WaitSkip(i)

\* One session, as the script is used: a manager is constructed and driven
\* through its thread, run and polling loop.
Session == CHOOSE i \in Inst : \A j \in Inst : i <= j

Next ==
  \/ Calls(Session)
  \/ WaitEnter(Session)
  \/ Sleep
  \/ Retrieve
  \/ Branch
  \/ CallTurn

Spec == Init /\ [][Next]_vars

\* Several managers in one process, constructed and made to create their
\* assistant and thread in any order.  No other method of the class writes
\* assistant, thread or a class-level id.
NextProcess == \E i \in Inst : CacheCalls(i)

SpecProcess == Init /\ [][NextProcess]_vars

\* get_news on its own: requests.get produces any outcome
InitNews ==
  /\ InitCommon
  /\ news_in \in Outcomes

\* get_news(topic), lines 26-63
GetNews ==
  /\ news_pc = "start"
  /\ news_out' = get_news(news_in)
  /\ news_pc' = "done"
  /\ UNCHANGED <<cacheVars, selfVars, remoteVars, loopVars, histVars, news_in>>

NextNews == GetNews

SpecNews == InitNews /\ [][NextNews]_vars

TypeOK ==
  /\ pc \in {"idle", "sleep", "retrieve", "branch", "call"}
  /\ assistant_id \in 0..NumInst
  /\ thread_id \in 0..NumInst
  /\ polls \in 0..MaxPolls
  /\ nRuns \in 0..MaxRuns

\* ======================================================================
\* Claims
\* ======================================================================
\* a tool call this program can serve: get_news with a topic in its arguments
GoodCall(action) ==
  /\ action.function.name = "get_news"
  /\ action.function.arguments.valid
  /\ action.function.arguments.has_topic

\* the polling loop is between two polls and the dispatch of the
\* requires_action step just fetched has run to its end
DispatchOver == pc = "sleep" /\ run_status.status = "requires_action"

PairIds(batch) == [k \in 1..Len(batch) |-> batch[k].tool_call_id]

\* C1: once wait_for_completion has fetched failed, cancelled or expired, it
\* leaves the loop and reports the failure; it is never found polling on
\* with such a status in hand.
C1_FailureEndsLoop ==
  run_status.status \in Failure => pc = "branch"

\* C2: a requires_action step with exactly one get_news call has get_news
\* called exactly once, with the topic of that call, and exactly one
\* submit_tool_outputs; a step with any other status calls neither; and the
\* poll that fetches completed ends the loop normally with the summary set.
C2_OncePerStep ==
  /\ (DispatchOver /\ Len(run_status.tool_calls) = 1 /\ GoodCall(run_status.tool_calls[1]))
       => /\ stepNews = <<run_status.tool_calls[1].function.arguments.topic>>
          /\ Len(stepSubmits) = 1
          /\ PairIds(stepSubmits[1]) = <<run_status.tool_calls[1].id>>
  /\ run_status.status # "requires_action" => stepNews = <<>> /\ stepSubmits = <<>>

C2_CompletedEnds ==
  \A i \in Inst :
    (pc = "branch" /\ cur = i /\ run_status.status = "completed")
      => /\ pc' = "idle"
         /\ last' = Finished("wait_for_completion", i, "returned", last'.again)
         /\ summary'[i] # NoSummary

C2_ScriptedRun == []C2_OncePerStep /\ [][C2_CompletedEnds]_vars

C2_Witness ==
  /\ DispatchOver
  /\ polls >= 2
  /\ Len(run_status.tool_calls) = 1
  /\ stepNews = <<"AI">>
  /\ Len(stepSubmits) = 1

\* C3: when the dispatch of a requires_action step with k get_news calls is
\* over, submit_tool_outputs has been called exactly once, with the k pairs
\* in tool-call order.
C3_SingleBatch ==
  (DispatchOver /\ \A k \in 1..Len(run_status.tool_calls) : GoodCall(run_status.tool_calls[k]))
    => /\ Len(stepSubmits) = 1
       /\ PairIds(stepSubmits[1]) = [k \in 1..Len(run_status.tool_calls) |-> run_status.tool_calls[k].id]

\* C4: a tool call with a name other than get_news makes the dispatch raise
\* out of wait_for_completion, wherever it stands in the list: the dispatch
\* of such a list never runs to its end, the turn that meets the call leaves
\* the loop with an error, and no batch submitted holds an output for it.
C4_NoOutputForUnknown ==
  /\ \A b \in 1..Len(stepSubmits) : \A k \in 1..Len(stepSubmits[b]) :
       run_status.tool_calls[stepSubmits[b][k].tool_call_id].function.name = "get_news"
  /\ DispatchOver =>
       \A k \in 1..Len(run_status.tool_calls) : run_status.tool_calls[k].function.name = "get_news"

C4_UnknownRaises ==
  (/\ pc = "call"
   /\ idx <= Len(run_status.tool_calls)
   /\ run_status.tool_calls[idx].function.name # "get_news")
    => /\ pc' = "idle"
       /\ last'.op = "wait_for_completion"
       /\ last'.result \in {"ValueError", "JSONDecodeError"}
       /\ runs' = runs

C4_UnknownFunction == []C4_NoOutputForUnknown /\ [][C4_UnknownRaises]_vars

\* the unknown call is the second of the list and the first has been answered
C4_Witness ==
  /\ pc = "call"
  /\ idx = 2
  /\ Len(run_status.tool_calls) >= 2
  /\ run_status.tool_calls[2].function.name # "get_news"
  /\ Len(stepSubmits) = 1

\* C5: the poll that fetches completed sets the summary get_summary returns
\* to the text of the first element of the thread's message list as the
\* remote has it then, and leaves the loop.
C5_Step ==
  \A i \in Inst :
    (pc = "branch" /\ cur = i /\ run_status.status = "completed")
      => /\ (get_summary(i))' = messages[thread[i]][1].text
         /\ pc' = "idle"
         /\ last'.op = "wait_for_completion" /\ last'.result = "returned"

C5_SummaryIsHead == [][C5_Step]_vars

C5_Witness ==
  /\ last.op = "wait_for_completion"
  /\ last.result = "returned"
  /\ last.inst \in Inst
  /\ thread[last.inst] # None
  /\ LET data == messages[thread[last.inst]] IN
       /\ Len(data) >= 2
       /\ data[1].text # data[Len(data)].text
       /\ get_summary(last.inst) = data[1].text

\* C6: an instance performs the remote assistant creation at most once and
\* the remote thread creation at most once, and a create_assistant
\* (create_thread) call on an instance that already has an assistant (a
\* thread) changes no instance's assistant or thread, no class-level id, and
\* creates nothing.
C6_AtMostOnce ==
  \A i \in Inst : asstCreates[i] <= 1 /\ threadCreates[i] <= 1

C6_SecondCallNoOp ==
  /\ (last'.op = "create_assistant" /\ assistant[last'.inst] # None)
       => UNCHANGED <<assistant, thread, assistant_id, thread_id, nAssistants, nThreads>>
  /\ (last'.op = "create_thread" /\ thread[last'.inst] # None)
       => UNCHANGED <<assistant, thread, assistant_id, thread_id, nAssistants, nThreads>>

C6_Idempotent == []C6_AtMostOnce /\ [][C6_SecondCallNoOp]_vars

\* create_assistant has just been called a second time in a row on an
\* instance that created its assistant itself
C6_Witness ==
  /\ last.op = "create_assistant"
  /\ last.again
  /\ asstCreates[last.inst] = 1
  /\ assistant_id = assistant[last.inst]

\* C7: a remote assistant creation happens only while no assistant id is
\* cached in AssistantManager.assistant_id, so a process creates at most one.
C7_CreatesOnlyUncached ==
  nAssistants' # nAssistants => assistant_id = None

C7_OnePerProcess == [](nAssistants <= 1) /\ [][C7_CreatesOnlyUncached]_vars

\* C8: add_message_to_thread on an instance without a thread does not
\* return normally.
C8_FailsFast ==
  (last.op = "add_message_to_thread" /\ thread[last.inst] = None)
    => last.result # "returned"

\* C9: run_assistant on an instance without a thread or without an
\* assistant does not return normally.
C9_FailsWithoutPrerequisites ==
  (last.op = "run_assistant" /\ (thread[last.inst] = None \/ assistant[last.inst] = None))
    => last.result # "returned"

\* C10: whenever requests.get raises or answers with a status other than
\* 200, get_news returns the empty list and raises nothing.
C10_EmptyOnFailure ==
  (news_pc = "done" /\ (news_in.exc # "none" \/ news_in.status_code # HTTP_OK))
    => news_out.raised = "none" /\ news_out.value = <<>>

\* the request failed in transport, and the call is over
C10_Witness ==
  /\ news_pc = "done"
  /\ news_in.exc \in TransportErrors
  /\ news_out = [raised |-> "none", value |-> <<>>]

\* C11: for a 200 response whose body carries an articles list, get_news
\* returns one record per article, in order, with the value of every field
\* the article has; an article without one of the fields still has its
\* record.
C11_OneRecordPerArticle ==
  (/\ news_pc = "done"
   /\ news_in.exc = "none"
   /\ news_in.status_code = HTTP_OK
   /\ news_in.body.shape = "ok")
    => /\ news_out.raised = "none"
       /\ Len(news_out.value) = Len(news_in.body.articles)
       /\ \A k \in 1..Len(news_in.body.articles) :
            \A f \in news_in.body.articles[k].keys :
              news_out.value[k][f] = news_in.body.articles[k].val[f]

\* C12: get_news and submit_tool_outputs are called only in an iteration
\* whose retrieve returned requires_action, and for the tool calls of the
\* list that retrieve returned: the topics asked for so far and the ids
\* answered in each batch are those of the first calls of that list.
C12_InDispatch == pc = "call" \/ stepNews # <<>> \/ stepSubmits # <<>>

C12_FreshList ==
  C12_InDispatch =>
    /\ run_status.status = "requires_action"
    /\ Len(stepNews) <= Len(run_status.tool_calls)
    /\ \A k \in 1..Len(stepNews) :
         stepNews[k] = run_status.tool_calls[k].function.arguments.topic
    /\ \A b \in 1..Len(stepSubmits) :
         /\ Len(stepSubmits[b]) <= Len(run_status.tool_calls)
         /\ \A k \in 1..Len(stepSubmits[b]) :
              stepSubmits[b][k].tool_call_id = run_status.tool_calls[k].id

C12_OnlyOnRequiresAction ==
  (stepNews' # stepNews \/ stepSubmits' # stepSubmits)
    => \/ pc = "retrieve" /\ stepNews' = <<>> /\ stepSubmits' = <<>>
       \/ pc' = "idle" /\ stepNews' = <<>> /\ stepSubmits' = <<>>
       \/ /\ pc = "call"
          /\ run_status.status = "requires_action"
          /\ run_status' = run_status
          /\ polls' = polls

C12_DispatchIsFresh == []C12_FreshList /\ [][C12_OnlyOnRequiresAction]_vars

\* the second poll returned requires_action and its call has been answered
C12_Witness ==
  /\ polls >= 2
  /\ pc = "call"
  /\ run_status.status = "requires_action"
  /\ Len(stepNews) = 1
  /\ Len(stepSubmits) = 1

\* C13: inside the loop every retrieve is preceded by its own sleep (as
\* many sleeps as retrieves, one more while a retrieve is due); a retrieve
\* takes the run's status from the remote and leads to the branch; the
\* branch dispatches only on a fetched requires_action and returns only on
\* a fetched completed; and a dispatch that ends goes back to the sleep
\* with run_status as it was fetched.
C13_SleepThenRetrieve ==
  sleeps = polls + (IF pc = "retrieve" THEN 1 ELSE 0)

C13_Step ==
  /\ polls' = polls + 1
       => /\ pc = "retrieve" /\ pc' = "branch"
          /\ cur' = cur
          /\ run_status'.status = runs'[run[cur]].status
  /\ (run_status' # run_status) => (polls' = polls + 1 \/ pc' = "idle")
  /\ pc = "branch"
       => /\ pc' \in {"sleep", "call", "idle"}
          /\ pc' = "call" => run_status.status = "requires_action"
          /\ pc' = "idle" => run_status.status = "completed"
          /\ pc' = "sleep" => run_status.status \notin {"completed", "requires_action"}
  /\ pc = "call" => pc' \in {"call", "sleep", "idle"}
  /\ pc = "sleep" => pc' = "retrieve" /\ sleeps' = sleeps + 1

C13_PollingLoop == []C13_SleepThenRetrieve /\ [][C13_Step]_vars

\* tool outputs were submitted, and the loop has slept again and is about
\* to retrieve
C13_Witness ==
  /\ pc = "retrieve"
  /\ polls >= 1
  /\ sleeps = polls + 1
  /\ run_status.status = "requires_action"
  /\ stepSubmits # <<>>

\* C14: the shared cache races.  Once two instances have each performed a
\* remote assistant creation, the class-level assistant_id is the id created
\* last and some instance holds an assistant with another id; the same for
\* threads and thread_id.  The witness shows such a state is reached.
C14_TwoCreated(creates) ==
  \E i \in Inst : \E j \in Inst \ {i} : creates[i] >= 1 /\ creates[j] >= 1

C14_CacheRaces ==
  /\ C14_TwoCreated(asstCreates)
       => /\ assistant_id = nAssistants
          /\ \E k \in constructed : assistant[k] \notin {None, assistant_id}
  /\ C14_TwoCreated(threadCreates)
       => /\ thread_id = nThreads
          /\ \E k \in constructed : thread[k] \notin {None, thread_id}

C14_Witness ==
  /\ C14_TwoCreated(asstCreates)
  /\ \E k \in constructed : asstCreates[k] = 1 /\ assistant[k] # assistant_id

\* C15: the step by which wait_for_completion, entered with a thread and a
\* run, returns normally is the branch on a fetched completed; it is the one
\* step of the call that runs process_messages, and it leaves the summary
\* set; no other step of the loop writes the summary.
C15_Step ==
  \A i \in Inst :
    (cur = i /\ pc # "idle")
      => /\ (pc' = "idle" /\ last'.result = "returned")
              => /\ pc = "branch"
                 /\ run_status.status = "completed"
                 /\ last'.op = "wait_for_completion" /\ last'.inst = i
                 /\ summary'[i] # NoSummary
                 /\ summary'[i] = messages[thread[i]][1].text
         /\ ~(pc' = "idle" /\ last'.result = "returned") => summary' = summary

C15_NormalReturn == [][C15_Step]_vars

C15_Witness ==
  /\ pc = "idle"
  /\ last.op = "wait_for_completion"
  /\ last.result = "returned"
  /\ last.inst \in Inst
  /\ run[last.inst] # None
  /\ runs[run[last.inst]].status = "completed"
  /\ summary[last.inst] \in AssistantTexts

\* C16: while the status last fetched is queued or in_progress the loop is
\* not dispatching and has called neither get_news nor submit_tool_outputs
\* since that fetch; and no step of the loop other than the branch on a
\* fetched completed changes the summary, the thread, the run or a
\* class-level id.
C16_WorkingDoesNothing ==
  run_status.status \in Working
    => pc # "call" /\ stepNews = <<>> /\ stepSubmits = <<>>

C16_Frame ==
  (pc # "idle" /\ ~(pc = "branch" /\ run_status.status = "completed"))
    => UNCHANGED <<summary, thread, run, assistant_id, thread_id>>

C16_IterationFrame == []C16_WorkingDoesNothing /\ [][C16_Frame]_vars

\* an iteration that fetched queued or in_progress is over
C16_Witness ==
  /\ pc = "sleep"
  /\ polls >= 1
  /\ run_status.status \in Working
  /\ messages[thread[cur]] # <<>>

\* C17: an instance without a thread has no run and no summary and is
\* never the one polling; and an add_message_to_thread, run_assistant,
\* process_messages or wait_for_completion call on it returns normally at
\* once, without a sleep or a retrieve, and leaves the remote side, the run
\* and the summary as they were.
C17_Threadless ==
  \A i \in constructed :
    thread[i] = None => run[i] = None /\ summary[i] = NoSummary /\ cur # i

C17_Step ==
  \A i \in constructed :
    (/\ thread[i] = None
     /\ last' # last
     /\ last'.inst = i
     /\ last'.op \in {"add_message_to_thread", "run_assistant",
                      "process_messages", "wait_for_completion"})
      => /\ last'.result = "returned"
         /\ pc = "idle" /\ pc' = "idle"
         /\ UNCHANGED <<remoteVars, run, summary, polls, sleeps, run_status>>

C17_NoThreadNoEffect == []C17_Threadless /\ [][C17_Step]_vars

\* wait_for_completion has returned on an instance that has an assistant
\* but no thread, right after a call of another method
C17_Witness ==
  /\ last.op = "wait_for_completion"
  /\ ~last.again
  /\ last.inst \in constructed
  /\ thread[last.inst] = None
  /\ thread_id = None
  /\ assistant[last.inst] # None
  /\ run[last.inst] = None

====
